---- MODULE Spec2Model ----
(***************************************************************************)
(* Model of src/lib/api/register-endpoint.ts: registerEndpoint, the        *)
(* endpoint-registration handshake with its host-redirect recursion.       *)
(*                                                                         *)
(* JavaScript values that may be undefined are modelled as sequences of    *)
(* length at most one: Undefined is <<>> and a defined value v is <<v>>.   *)
(* null is a value of its own (Null), distinct from Undefined.             *)
(* Strings of the wire (header values) are sequences of one-character      *)
(* strings, so that parseInt and the emptiness test work on their content. *)
(***************************************************************************)
EXTENDS Integers, Sequences, FiniteSets, TLC

\* ------------------------------------------------------------------ bounds
\* Length up to which the transport logs (posts, received) are recorded, and
\* value up to which the POSTs are counted: a POST issued when the log is full
\* is still issued, it is no longer logged and nPosts[c] stays MaxPosts + 1,
\* which reads "more than MaxPosts".
MaxPosts == 3
\* Largest retry budget a caller passes in the explored inputs.
MaxRetry == 2
\* The clock (seconds) at the start, and the number of seconds it may advance;
\* the decimal string of the time grows by a digit within them.
FirstTime == 98
MaxTicks == 3

\* --------------------------------------------------------------- JS values
Undefined == <<>>
Some(v) == <<v>>
Null == "null"

\* ------------------------------------------------------------------ inputs
Calls == {1, 2}
SKYPEWEB_DEFAULT_MESSAGES_HOST == "hostA"
Hosts == {SKYPEWEB_DEFAULT_MESSAGES_HOST, "hostB"}

\* options?: RegisterEndpointOptions, each field optional.
OptionsRecords ==
  [messagesHost : {Undefined} \cup {Some(h) : h \in Hosts},
   retry : {Undefined} \cup {Some(n) : n \in 0..MaxRetry}]
AllOptions == {Undefined} \cup {Some(o) : o \in OptionsRecords}

\* The location header values the transport may return: an absolute URI on
\* one of the hosts, or a URI without host component (a path).
LocationHeaders == {[host |-> Some(h)] : h \in Hosts} \cup {[host |-> Undefined]}

\* The set-registrationtoken header values the transport may return, as the
\* sequence of their "key=value" segments.
TokenValue == <<"t", "k">>
ExpiresValue == <<"1", "7">>
EndpointIdValue == <<"{", "e", "}">>
FullTokenHeader ==
  << <<"registrationToken", TokenValue>>, <<"expires", ExpiresValue>>,
     <<"endpointId", EndpointIdValue>> >>
LaterExpiresValue == <<"2", "0", "5">>
LaterTokenHeader ==
  << <<"registrationToken", TokenValue>>, <<"expires", LaterExpiresValue>>,
     <<"endpointId", EndpointIdValue>> >>
TokenHeaders ==
  { FullTokenHeader, LaterTokenHeader,
    << <<"expires", ExpiresValue>>, <<"endpointId", EndpointIdValue>> >>,
    << <<"registrationToken", TokenValue>>, <<"endpointId", EndpointIdValue>> >>,
    << <<"registrationToken", TokenValue>>, <<"expires", ExpiresValue>> >>,
    << <<"registrationToken", <<>> >>, <<"expires", ExpiresValue>>,
       <<"endpointId", EndpointIdValue>> >> }

StatusCodes == {201, 301, 404}

Responses ==
  [statusCode : StatusCodes,
   headers : [location : LocationHeaders, setRegistrationtoken : TokenHeaders]]

\* What io.post settles with: a response, or a rejection of the transport.
IoError == [error |-> "io"]
PostOutcomes == Responses \cup {IoError}

\* apiContext: the session of the caller, read only.
apiContext == [skypeToken |-> [value |-> <<"s", "k">>], cookies |-> "cookies"]
SKYPEWEB_LOCKANDKEY_APPID == <<"a", "p", "p">>
SKYPEWEB_LOCKANDKEY_SECRET == <<"s", "e", "c">>
SKYPEWEB_CLIENTINFO_NAME == <<"s", "w", "x">>
SKYPEWEB_CLIENTINFO_VERSION == <<"9", "0", "8">>

NoResponse == [none |-> TRUE]
NoRequest == [uri |-> Undefined]
Pending == [kind |-> "pending"]

VARIABLES
  args,            \* options the caller passed to the outermost invocation
  options,         \* options of the current (innermost) invocation
  pc,              \* "idle", "start" (before io.post), "await", "done"
  requestOptions,  \* the request of the last io.post
  nPosts,          \* transport: number of POSTs issued by the call
  posts,           \* transport log: the hosts POSTed to, in order
  res,             \* the last response received
  received,        \* transport log: status and location of the responses, in order
  result,          \* what the promise of the outermost call settled with
  now              \* the clock getCurrentTime reads, in seconds

vars ==
  <<args, options, pc, requestOptions, nPosts, posts, res, received, result, now>>


\* ------------------------------------------------------ pure parts of the code
\* messagesUri.endpoints(host): the URI of the endpoints resource of host.
endpoints(host) == [host |-> host, path |-> "endpoints"]

\* String(n) for n >= 0: the decimal digits of n.
DigitChar(d) == <<"0", "1", "2", "3", "4", "5", "6", "7", "8", "9">>[d + 1]
RECURSIVE String(_)
String(n) == IF n < 10 THEN <<DigitChar(n)>> ELSE Append(String(n \div 10), DigitChar(n % 10))

\* hmacSha256 (utils/hmac-sha256): a digest that tells its inputs apart.
hmacSha256(input, appId, secret) == <<"hmacSha256", input, appId, secret>>

\* Lines 12-17. The Buffers are the UTF-8 bytes of the three strings.
getLockAndKeyResponse(time) ==
  hmacSha256(String(time), SKYPEWEB_LOCKANDKEY_APPID, SKYPEWEB_LOCKANDKEY_SECRET)

\* stringifyHeaderParams (utils): a "key=value" segment per key, in the order
\* of the keys of the object.
stringifyHeaderParams(keys, params) ==
  [i \in 1..Len(keys) |-> <<keys[i], params[keys[i]]>>]

\* Lines 40-59: the headers of the request of an invocation started at
\* startTime.
Headers(startTime) ==
  LET lockAndKeyResponse == getLockAndKeyResponse(startTime) IN
  [LockAndKey |->
     stringifyHeaderParams(<<"appId", "time", "lockAndKeyResponse">>,
       [appId |-> SKYPEWEB_LOCKANDKEY_APPID,
        time |-> String(startTime),
        lockAndKeyResponse |-> lockAndKeyResponse]),
   ClientInfo |->
     stringifyHeaderParams(
       <<"os", "osVer", "proc", "lcid", "deviceType", "country", "clientName", "clientVer">>,
       [os |-> <<"W">>, osVer |-> <<"1", "0">>, proc |-> <<"W", "6", "4">>,
        lcid |-> <<"e", "n">>, deviceType |-> <<"1">>, country |-> <<"n", "/", "a">>,
        clientName |-> SKYPEWEB_CLIENTINFO_NAME,
        clientVer |-> SKYPEWEB_CLIENTINFO_VERSION]),
   Authentication |->
     stringifyHeaderParams(<<"skypetoken">>, [skypetoken |-> apiContext.skypeToken.value])]

\* Lines 65-70.
RequestOptions(messagesHost, headers) ==
  [uri |-> endpoints(messagesHost), headers |-> headers,
   cookies |-> apiContext.cookies, body |-> "{}"]

\* Mutant: the host option is ignored, every attempt queries the default host.
messagesHostOf_Default(opts) == SKYPEWEB_DEFAULT_MESSAGES_HOST

\* Lines 61-63: the messages host of an invocation.
messagesHostOf(opts) ==
  IF opts = Undefined \/ opts[1].messagesHost = Undefined
    THEN SKYPEWEB_DEFAULT_MESSAGES_HOST
    ELSE opts[1].messagesHost[1]

\* Mutant: an omitted retry option counts as no retry.
retryOf_NoDefault(opts) ==
  IF opts = Undefined \/ opts[1].retry = Undefined THEN 0 ELSE opts[1].retry[1]

\* Line 86: the retry budget of an invocation.
retryOf(opts) ==
  IF opts = Undefined \/ opts[1].retry = Undefined THEN 2 ELSE opts[1].retry[1]

\* Mutant: 404 is accepted too.
expectedStatusCodes_With404 == {201, 301, 404}

\* Line 73.
expectedStatusCodes == {201, 301}

\* Line 81: url.parse of the location header. The parser sets the components
\* a URI does not have to null, not to undefined.
parseUri(locationHeader) ==
  IF locationHeader.host = Undefined
    THEN [host |-> Some(Null)]
    ELSE [host |-> locationHeader.host]

\* parseHeaderParams: the mapping of the keys of a header value to their
\* values, the last occurrence of a key winning.
RECURSIVE parseHeaderParams(_)
parseHeaderParams(header) ==
  IF header = <<>> THEN <<>>
  ELSE LET seg == header[Len(header)]
           rest == parseHeaderParams(SubSeq(header, 1, Len(header) - 1))
       IN  [k \in DOMAIN rest \cup {seg[1]} |->
              IF k = seg[1] THEN seg[2] ELSE rest[k]]

\* Mutant: only an absent key counts, an empty value passes.
Falsy_AbsentOnly(dict, key) == key \notin DOMAIN dict

\* !dict[key] of line 98: the key is absent, or its value is the empty string.
Falsy(dict, key) == key \notin DOMAIN dict \/ dict[key] = <<>>

\* Line 98.
MissingParameters(parsedHeader) ==
  \/ Falsy(parsedHeader, "registrationToken")
  \/ Falsy(parsedHeader, "expires")
  \/ Falsy(parsedHeader, "endpointId")

\* parseInt(s, 10) on a string of decimal digits.
Digit(ch) ==
  CASE ch = "0" -> 0 [] ch = "1" -> 1 [] ch = "2" -> 2 [] ch = "3" -> 3
    [] ch = "4" -> 4 [] ch = "5" -> 5 [] ch = "6" -> 6 [] ch = "7" -> 7
    [] ch = "8" -> 8 [] ch = "9" -> 9
RECURSIVE parseInt(_)
parseInt(s) ==
  IF s = <<>> THEN 0
  ELSE 10 * parseInt(SubSeq(s, 1, Len(s) - 1)) + Digit(s[Len(s)])

\* Mutant: the seconds are taken for milliseconds.
RegistrationToken_Seconds(parsedHeader, registrationTokenHeader, messagesHost) ==
  [kind |-> "token",
   value |-> parsedHeader["registrationToken"],
   expirationDate |-> parseInt(parsedHeader["expires"]),
   endpointId |-> parsedHeader["endpointId"],
   raw |-> registrationTokenHeader,
   host |-> messagesHost]

\* Mutant: the token names the default host, not the host that answered.
RegistrationToken_DefaultHost(parsedHeader, registrationTokenHeader, messagesHost) ==
  [kind |-> "token",
   value |-> parsedHeader["registrationToken"],
   expirationDate |-> 1000 * parseInt(parsedHeader["expires"]),
   endpointId |-> parsedHeader["endpointId"],
   raw |-> registrationTokenHeader,
   host |-> SKYPEWEB_DEFAULT_MESSAGES_HOST]

\* Lines 102-110: the token built from a response whose host matched.
RegistrationToken(parsedHeader, registrationTokenHeader, messagesHost) ==
  [kind |-> "token",
   value |-> parsedHeader["registrationToken"],
   expirationDate |-> 1000 * parseInt(parsedHeader["expires"]),
   endpointId |-> parsedHeader["endpointId"],
   raw |-> registrationTokenHeader,
   host |-> messagesHost]

Failure(name) == [kind |-> "error", name |-> name]

\* Line 85: the location host is not the host queried.
\* Mutant: the comparison is dropped.
HostDiffers_Never(location, messagesHost) == FALSE

\* Mutant: every accepted response counts as a redirect.
HostDiffers_Always(location, messagesHost) == TRUE

HostDiffers(location, messagesHost) == location.host[1] # messagesHost

\* Mutant: the recursive call is not returned, the rejection below it runs too.
OnHostMismatch_NoReturn(opts, location) ==
  LET retry == retryOf(opts) IN
  IF retry > 0
    THEN [pc |-> "start",
          options |-> Some([messagesHost |-> location.host, retry |-> Some(retry)]),
          result |-> Failure("net")]
    ELSE [pc |-> "done", options |-> opts, result |-> Failure("net")]

\* Mutant: the budget test is off by one (retry >= 0).
OnHostMismatch_OffByOne(opts, location) ==
  LET retry == retryOf(opts) IN
  IF retry >= 0
    THEN [pc |-> "start",
          options |-> Some([messagesHost |-> location.host, retry |-> Some(retry)]),
          result |-> Pending]
    ELSE [pc |-> "done", options |-> opts, result |-> Failure("net")]

\* Lines 85-92: what a response whose location host differs from the host
\* queried leads to: a recursive invocation, or a rejection.
OnHostMismatch(opts, location) ==
  LET retry == retryOf(opts) IN
  IF retry > 0
    THEN [pc |-> "start",
          options |-> Some([messagesHost |-> location.host, retry |-> Some(retry)]),
          result |-> Pending]
    ELSE [pc |-> "done", options |-> opts, result |-> Failure("net")]

\* Mutant: a failed POST is tried again while budget remains.
OnPostRejected_Retry(opts) ==
  IF retryOf(opts) > 0
    THEN [pc |-> "start", options |-> opts, result |-> Pending]
    ELSE [pc |-> "done", options |-> opts, result |-> Failure("io")]

\* Line 72: the await of a rejected io.post rethrows, there is no try/catch.
OnPostRejected(opts) == [pc |-> "done", options |-> opts, result |-> Failure("io")]

\* Mutant: a host mismatch counts as a redirect on 301 only.
AfterPost_RedirectOn301Only(opts, o) ==
  LET messagesHost == messagesHostOf(opts)
      Throw(name) == [pc |-> "done", options |-> opts, result |-> Failure(name)]
  IN
  IF "error" \in DOMAIN o THEN OnPostRejected(opts)
  ELSE IF o.statusCode \notin expectedStatusCodes THEN Throw("UnexpectedHttpStatus")
  ELSE LET location == parseUri(o.headers.location) IN
    IF location.host = Undefined THEN Throw("UndefinedLocationHost")
    ELSE IF HostDiffers(location, messagesHost) /\ o.statusCode = 301
      THEN OnHostMismatch(opts, location)
    ELSE LET registrationTokenHeader == o.headers.setRegistrationtoken
             parsedHeader == parseHeaderParams(registrationTokenHeader)
         IN IF MissingParameters(parsedHeader) THEN Throw("protocol")
            ELSE [pc |-> "done", options |-> opts,
                  result |-> RegistrationToken(parsedHeader, registrationTokenHeader,
                                               messagesHost)]

\* Mutant: the token parameters are tested before the hosts are compared.
AfterPost_ParametersFirst(opts, o) ==
  LET messagesHost == messagesHostOf(opts)
      Throw(name) == [pc |-> "done", options |-> opts, result |-> Failure(name)]
  IN
  IF "error" \in DOMAIN o THEN OnPostRejected(opts)
  ELSE IF o.statusCode \notin expectedStatusCodes THEN Throw("UnexpectedHttpStatus")
  ELSE LET location == parseUri(o.headers.location)
           registrationTokenHeader == o.headers.setRegistrationtoken
           parsedHeader == parseHeaderParams(registrationTokenHeader)
       IN
    IF location.host = Undefined THEN Throw("UndefinedLocationHost")
    ELSE IF MissingParameters(parsedHeader) THEN Throw("protocol")
    ELSE IF HostDiffers(location, messagesHost) THEN OnHostMismatch(opts, location)
    ELSE [pc |-> "done", options |-> opts,
          result |-> RegistrationToken(parsedHeader, registrationTokenHeader,
                                       messagesHost)]

\* Lines 72-110: what the invocation with options opts does with the outcome
\* o of its io.post. pc "start" is the recursive invocation of line 88.
AfterPost(opts, o) ==
  LET messagesHost == messagesHostOf(opts)
      Throw(name) == [pc |-> "done", options |-> opts, result |-> Failure(name)]
  IN
  IF "error" \in DOMAIN o THEN OnPostRejected(opts)
  ELSE IF o.statusCode \notin expectedStatusCodes THEN Throw("UnexpectedHttpStatus")
  ELSE LET location == parseUri(o.headers.location) IN
    IF location.host = Undefined THEN Throw("UndefinedLocationHost")
    ELSE IF HostDiffers(location, messagesHost) THEN OnHostMismatch(opts, location)
    ELSE LET registrationTokenHeader == o.headers.setRegistrationtoken
             parsedHeader == parseHeaderParams(registrationTokenHeader)
         IN IF MissingParameters(parsedHeader) THEN Throw("protocol")
            ELSE [pc |-> "done", options |-> opts,
                  result |-> RegistrationToken(parsedHeader, registrationTokenHeader,
                                               messagesHost)]


\* ------------------------------------------------------------------ actions
Log(log, entry) == IF Len(log) < MaxPosts THEN Append(log, entry) ELSE log

\* getCurrentTime (utils): the clock, in seconds.
getCurrentTime == now

\* Mutant: a recursive attempt sends the headers of the attempt before it.
Post_ReusedHeaders(c) ==
  /\ pc[c] = "start"
  /\ LET messagesHost == messagesHostOf(options[c])
         startTime == getCurrentTime
     IN
     /\ requestOptions' =
          [requestOptions EXCEPT ![c] =
             RequestOptions(messagesHost,
                            IF nPosts[c] >= 1 THEN @.headers ELSE Headers(startTime))]
     /\ posts' = [posts EXCEPT ![c] = Log(@, messagesHost)]
  /\ nPosts' = [nPosts EXCEPT ![c] = IF @ <= MaxPosts THEN @ + 1 ELSE @]
  /\ pc' = [pc EXCEPT ![c] = "await"]
  /\ UNCHANGED <<args, options, res, received, result, now>>

\* Lines 38-72, up to the call of io.post: the invocation builds its request
\* and hands it to the transport.
Post(c) ==
  /\ pc[c] = "start"
  /\ LET messagesHost == messagesHostOf(options[c])
         startTime == getCurrentTime
     IN
     /\ requestOptions' =
          [requestOptions EXCEPT ![c] = RequestOptions(messagesHost, Headers(startTime))]
     /\ posts' = [posts EXCEPT ![c] = Log(@, messagesHost)]
  /\ nPosts' = [nPosts EXCEPT ![c] = IF @ <= MaxPosts THEN @ + 1 ELSE @]
  /\ pc' = [pc EXCEPT ![c] = "await"]
  /\ UNCHANGED <<args, options, res, received, result, now>>

\* A second passes.
Tick ==
  /\ now < FirstTime + MaxTicks
  /\ now' = now + 1
  /\ UNCHANGED <<args, options, pc, requestOptions, nPosts, posts, res, received, result>>

\* The transport log after outcome o: a response is logged by its status and
\* its location header, a failed POST is not logged.
Received(log, o) ==
  IF "error" \in DOMAIN o THEN log
  ELSE Log(log, [statusCode |-> o.statusCode, location |-> o.headers.location])

\* Mutant: the host of the next attempt is kept in a variable of the module,
\* so a redirect followed by one call moves every running call to that host.
Settle_SharedHost(S, o) ==
  /\ res' = [c \in Calls |-> IF c \in S THEN o ELSE res[c]]
  /\ pc' = [c \in Calls |-> IF c \in S THEN AfterPost(options[c], o).pc ELSE pc[c]]
  /\ options' =
       [c \in Calls |->
          IF c \in S THEN AfterPost(options[c], o).options
          ELSE IF pc[c] \in {"start", "await"}
                  /\ \E d \in S : AfterPost(options[d], o).pc = "start"
            THEN AfterPost(options[CHOOSE d \in S : AfterPost(options[d], o).pc = "start"],
                           o).options
            ELSE options[c]]
  /\ result' =
       [c \in Calls |-> IF c \in S THEN AfterPost(options[c], o).result ELSE result[c]]
  /\ received' =
       [c \in Calls |-> IF c \in S THEN Received(received[c], o) ELSE received[c]]
  /\ UNCHANGED <<args, requestOptions, nPosts, posts, now>>

\* io.post settles with o for every call of S, and each runs lines 72-110.
Settle(S, o) ==
  /\ res' = [c \in Calls |-> IF c \in S THEN o ELSE res[c]]
  /\ pc' = [c \in Calls |-> IF c \in S THEN AfterPost(options[c], o).pc ELSE pc[c]]
  /\ options' =
       [c \in Calls |-> IF c \in S THEN AfterPost(options[c], o).options ELSE options[c]]
  /\ result' =
       [c \in Calls |-> IF c \in S THEN AfterPost(options[c], o).result ELSE result[c]]
  /\ received' =
       [c \in Calls |-> IF c \in S THEN Received(received[c], o) ELSE received[c]]
  /\ UNCHANGED <<args, requestOptions, nPosts, posts, now>>

\* The POST of call c returns (or fails), whatever the other calls do.
Receive(c) ==
  /\ pc[c] = "await"
  /\ \E o \in PostOutcomes : Settle({c}, o)

\* A transport double that answers the outstanding POSTs of all calls with
\* the same outcome, once every running call has issued its POST.
ReceiveSame ==
  /\ \A c \in Calls : pc[c] # "start"
  /\ \E c \in Calls : pc[c] = "await"
  /\ \E o \in PostOutcomes : Settle({c \in Calls : pc[c] = "await"}, o)

\* --------------------------------------------------------- specifications
Started(as, running) ==
  /\ args = as
  /\ options = as
  /\ pc = [c \in Calls |-> IF c \in running THEN "start" ELSE "idle"]
  /\ requestOptions = [c \in Calls |-> NoRequest]
  /\ nPosts = [c \in Calls |-> 0]
  /\ posts = [c \in Calls |-> <<>>]
  /\ res = [c \in Calls |-> NoResponse]
  /\ received = [c \in Calls |-> <<>>]
  /\ result = [c \in Calls |-> Pending]
  /\ now = FirstTime

\* One call, with any options; the other call is never made.
Init == \E o \in AllOptions : Started([c \in Calls |-> o], {1})

Next ==
  \/ \E c \in Calls : Post(c)
  \/ \E c \in Calls : Receive(c)

Spec == Init /\ [][Next]_vars

\* The event loop runs a started invocation up to its io.post, and every POST
\* eventually returns.
FairSpec ==
  /\ Spec
  /\ WF_vars(\E c \in Calls : Post(c))
  /\ WF_vars(\E c \in Calls : Receive(c))


\* The options of lines 19-28 as documented: an omitted messagesHost is the
\* default messages host, an omitted retry is 2.
WithDefaults(opts) ==
  Some([messagesHost |->
          IF opts = Undefined \/ opts[1].messagesHost = Undefined
            THEN Some(SKYPEWEB_DEFAULT_MESSAGES_HOST) ELSE opts[1].messagesHost,
        retry |->
          IF opts = Undefined \/ opts[1].retry = Undefined
            THEN Some(2) ELSE opts[1].retry])
OmittingOptions ==
  {o \in AllOptions :
     o = Undefined \/ o[1].messagesHost = Undefined \/ o[1].retry = Undefined}

\* Two calls against a transport that answers both alike: call 1 omits
\* options, call 2 passes the documented defaults in their place.
InitDefaults ==
  \E o \in OmittingOptions :
    Started([c \in Calls |-> IF c = 1 THEN o ELSE WithDefaults(o)], Calls)

NextDefaults ==
  \/ \E c \in Calls : Post(c)
  \/ ReceiveSame

SpecDefaults == InitDefaults /\ [][NextDefaults]_vars

\* Two concurrent calls, each with its own transport outcomes, in any
\* interleaving. The outcomes and options are a part of those of Spec.
PairOutcomes ==
  {o \in Responses :
     /\ o.statusCode \in {201, 404}
     /\ o.headers.location.host # Undefined
     /\ o.headers.setRegistrationtoken \in
          {FullTokenHeader,
           << <<"registrationToken", TokenValue>>, <<"expires", ExpiresValue>> >>}}
    \cup {IoError}
PairOptions ==
  {Undefined} \cup
  {Some([messagesHost |-> Some("hostB"), retry |-> Some(n)]) : n \in 0..1}

ReceivePair(c) ==
  /\ pc[c] = "await"
  /\ \E o \in PairOutcomes : Settle({c}, o)

InitPair == \E as \in [Calls -> PairOptions] : Started(as, Calls)

NextPair ==
  \/ \E c \in Calls : Post(c)
  \/ \E c \in Calls : ReceivePair(c)

SpecPair == InitPair /\ [][NextPair]_vars

\* One call while the clock advances, with the outcomes and options of
\* SpecPair.
InitClock == \E o \in PairOptions : Started([c \in Calls |-> o], {1})

NextClock ==
  \/ \E c \in Calls : Post(c)
  \/ \E c \in Calls : ReceivePair(c)
  \/ Tick

SpecClock == InitClock /\ [][NextClock]_vars

\* ------------------------------------------------------------- vocabulary
IsResponse(r) == "statusCode" \in DOMAIN r
AcceptedStatus(r) == r.statusCode \in {201, 301}
\* The value of location.host the code compares, for a location header.
LocationHost(locationHeader) == parseUri(locationHeader).host[1]
\* The host the last POST of call c went to.
Queried(c) == requestOptions[c].uri.host
\* The logs of call c are complete (no POST beyond the recorded ones).
Recorded(c) == nPosts[c] <= MaxPosts
RetryArg(c, n) == args[c] # Undefined /\ args[c][1].retry = Some(n)
HasParam(header, key) ==
  \E i \in 1..Len(header) : header[i][1] = key /\ header[i][2] # <<>>
CompleteTokenHeader(header) ==
  /\ HasParam(header, "registrationToken")
  /\ HasParam(header, "expires")
  /\ HasParam(header, "endpointId")
\* Call c has handled its last response and issued no POST since.
Handled(c) == IsResponse(res[c]) /\ pc[c] \in {"start", "done"}

\* ------------------------------------------------------------------ claims

\* The transport of call c has only named real hosts so far.
RealHosts(c) ==
  /\ \A i \in 1..Len(posts[c]) : posts[c][i] \in Hosts
  /\ messagesHostOf(options[c]) \in Hosts

\* C1 (as claimed): each redirect followed decrements the retry budget by
\* one, so a call started with retry = n issues at most n + 1 POSTs. Stated
\* for the calls redirected among real hosts only.
C1_PostsWithinBudget ==
  \A c \in Calls : RealHosts(c) => nPosts[c] <= retryOf(args[c]) + 1
C1_RetryDecremented ==
  /\ [][\A c \in Calls :
          (pc[c] = "await" /\ pc'[c] = "start" /\ RealHosts(c)') =>
             retryOf(options'[c]) = retryOf(options[c]) - 1]_vars
  /\ []C1_PostsWithinBudget

\* C2 (as claimed): every call eventually reaches a terminal state, provided
\* each POST eventually returns. Stated for the calls redirected among real
\* hosts only.
C2_Terminates ==
  \A c \in Calls : (pc[c] = "start") ~> (pc[c] = "done" \/ ~RealHosts(c))

\* C3: a returned token was built from a response with status 201 or 301,
\* whose location host equals the host queried in that attempt, and whose
\* set-registrationtoken header has all three parameters.
C3_TokenOnlyFromValidResponse ==
  \A c \in Calls :
    result[c].kind = "token" =>
      /\ IsResponse(res[c])
      /\ AcceptedStatus(res[c])
      /\ LocationHost(res[c].headers.location) = Queried(c)
      /\ CompleteTokenHeader(res[c].headers.setRegistrationtoken)
C3_Witness ==
  \E c \in Calls : result[c].kind = "token" /\ nPosts[c] = 2

\* C4: with retry = 0, an accepted response whose location host differs from
\* the requested host fails the call with "net" (RetriesExhausted) after
\* exactly one POST.
C4_Case(c) ==
  /\ RetryArg(c, 0)
  /\ Handled(c)
  /\ AcceptedStatus(res[c])
  /\ LocationHost(res[c].headers.location) # posts[c][1]
C4_NoRetryLeft ==
  \A c \in Calls :
    C4_Case(c) =>
      /\ pc[c] = "done"
      /\ result[c] = Failure("net")
      /\ nPosts[c] = 1
C4_Witness == \E c \in Calls : C4_Case(c) /\ res[c].statusCode = 301

\* C5: with retry = 1, a first response 301 with location host B (not the
\* requested host) and a second response 201 with location host B and a
\* complete set-registrationtoken header give a token with host B after
\* exactly two POSTs, the second to B.
C5_Case(c, B) ==
  /\ RetryArg(c, 1)
  /\ Handled(c)
  /\ Len(received[c]) = 2
  /\ received[c][1].statusCode = 301
  /\ LocationHost(received[c][1].location) = B
  /\ B # posts[c][1]
  /\ res[c].statusCode = 201
  /\ LocationHost(res[c].headers.location) = B
  /\ CompleteTokenHeader(res[c].headers.setRegistrationtoken)
C5_RedirectSuccess ==
  \A c \in Calls : \A B \in Hosts :
    C5_Case(c, B) =>
      /\ pc[c] = "done"
      /\ result[c].kind = "token"
      /\ result[c].host = B
      /\ nPosts[c] = 2
      /\ posts[c] = <<posts[c][1], B>>
C5_Witness == \E c \in Calls : \E B \in Hosts : C5_Case(c, B)

\* C6: a response whose status is neither 201 nor 301 fails the call with
\* UnexpectedHttpStatus, in any attempt, and no POST follows it.
C6_Case(c) == IsResponse(res[c]) /\ ~AcceptedStatus(res[c])
C6_UnexpectedStatusTerminal ==
  \A c \in Calls :
    C6_Case(c) =>
      /\ pc[c] = "done"
      /\ result[c] = Failure("UnexpectedHttpStatus")
      /\ Recorded(c) => nPosts[c] = Len(received[c])
C6_Witness ==
  \E c \in Calls :
    /\ C6_Case(c)
    /\ nPosts[c] = 2
    /\ retryOf(options[c]) > 0
    /\ LocationHost(res[c].headers.location) # Queried(c)

\* C7 (as claimed): an accepted response whose location header has no host
\* component fails the call with UndefinedLocationHost, terminally.
C7_Case(c) ==
  /\ Handled(c)
  /\ AcceptedStatus(res[c])
  /\ res[c].headers.location.host = Undefined
C7_MissingRedirectHost ==
  \A c \in Calls :
    C7_Case(c) => pc[c] = "done" /\ result[c] = Failure("UndefinedLocationHost")

\* C8: an accepted response whose location host equals the queried host and
\* whose set-registrationtoken header lacks one of the three parameters
\* fails the call with "protocol" (MissingTokenFields): no token, no POST.
C8_Case(c) ==
  /\ Handled(c)
  /\ AcceptedStatus(res[c])
  /\ LocationHost(res[c].headers.location) = Queried(c)
  /\ ~CompleteTokenHeader(res[c].headers.setRegistrationtoken)
C8_MissingTokenFields ==
  \A c \in Calls :
    C8_Case(c) =>
      /\ pc[c] = "done"
      /\ result[c] = Failure("protocol")
      /\ Recorded(c) => nPosts[c] = Len(received[c])
C8_Witness ==
  \E c \in Calls :
    /\ C8_Case(c)
    /\ ~HasParam(res[c].headers.setRegistrationtoken, "endpointId")
    /\ nPosts[c] = 2


\* C9 (as claimed): the host of a returned token is the host of the last
\* POST and the location host of the last response; after k > 0 followed
\* redirects it is the k-th redirect target and never the host requested
\* first. Stated for the calls that stay within their retry budget, among
\* real hosts.
C9_Case(c) == result[c].kind = "token" /\ Recorded(c)
C9_NeverFirstHost ==
  \A c \in Calls :
    (C9_Case(c) /\ RealHosts(c) /\ nPosts[c] <= retryOf(args[c]) + 1) =>
      /\ result[c].host = Queried(c)
      /\ result[c].host = LocationHost(res[c].headers.location)
      /\ nPosts[c] > 1 =>
           /\ result[c].host = LocationHost(received[c][nPosts[c] - 1].location)
           /\ result[c].host # posts[c][1]

\* C9 (amended): the host of a returned token is the host of the last POST
\* and the location host of the last response; after k > 0 followed
\* redirects it is the k-th redirect target (which may be the host requested
\* first), and with no redirect it is the host requested.
C9_TokenHost ==
  \A c \in Calls :
    result[c].kind = "token" =>
      /\ result[c].host = Queried(c)
      /\ result[c].host = LocationHost(res[c].headers.location)
      /\ Recorded(c) =>
           /\ result[c].host = posts[c][nPosts[c]]
           /\ nPosts[c] > 1 =>
                result[c].host = LocationHost(received[c][nPosts[c] - 1].location)
           /\ nPosts[c] = 1 =>
                result[c].host = messagesHostOf(args[c])
C9_Witness ==
  \E c \in Calls :
    /\ C9_Case(c)
    /\ nPosts[c] = 3
    /\ result[c].host = posts[c][1]
    /\ posts[c][2] # posts[c][1]


\* C10: a call that omits options (or one of messagesHost, retry) issues the
\* same POSTs and ends in the same outcome as a call that passes the default
\* messages host and retry = 2 in their place, for the same responses.
C10_SameAsDefaults ==
  (\A c \in Calls : pc[c] # "start") =>
    /\ pc[1] = pc[2]
    /\ requestOptions[1] = requestOptions[2]
    /\ nPosts[1] = nPosts[2]
    /\ posts[1] = posts[2]
    /\ result[1] = result[2]
C10_Witness ==
  /\ args[1] = Undefined
  /\ args[2] # Undefined
  /\ pc[1] = "done" /\ pc[2] = "done"
  /\ nPosts[1] = 3
  /\ result[1].kind = "token"

\* C11: a failure of the transport's POST fails the call with that failure,
\* in any attempt, and no POST follows it, whatever budget remains.
C11_Case(c) == "error" \in DOMAIN res[c]
C11_TransportFailurePropagates ==
  \A c \in Calls :
    C11_Case(c) =>
      /\ pc[c] = "done"
      /\ result[c] = Failure("io")
      /\ Recorded(c) => nPosts[c] = Len(received[c]) + 1
C11_Witness ==
  \E c \in Calls :
    /\ C11_Case(c)
    /\ nPosts[c] = 2
    /\ retryOf(options[c]) > 0

\* C12: a call produces exactly one outcome, a token or one failure of the
\* known kinds; the outcome never changes and no POST follows it.
FailureNames == {"UnexpectedHttpStatus", "UndefinedLocationHost", "net", "protocol", "io"}
C12_Settled(c) == result[c] # Pending
C12_Outcome ==
  \A c \in Calls :
    /\ C12_Settled(c) <=> pc[c] = "done"
    /\ C12_Settled(c) =>
         \/ result[c].kind = "token"
         \/ result[c].kind = "error" /\ result[c].name \in FailureNames
C12_SingleOutcome ==
  /\ []C12_Outcome
  /\ [][\A c \in Calls :
          C12_Settled(c) =>
            /\ result'[c] = result[c]
            /\ pc'[c] = pc[c]
            /\ nPosts'[c] = nPosts[c]
            /\ requestOptions'[c] = requestOptions[c]]_vars
C12_Witness ==
  \E c \in Calls :
    /\ C12_Settled(c)
    /\ result[c] = Failure("protocol")
    /\ nPosts[c] = 3

\* C13: concurrent calls share no mutable state. What a call has done after
\* its responses, in any interleaving with the other call, is what the call
\* alone does with these responses: the same POSTs, the same host and budget
\* for the next attempt, the same outcome.
Replayed(entry) ==
  [statusCode |-> entry.statusCode,
   headers |-> [location |-> entry.location, setRegistrationtoken |-> FullTokenHeader]]
RECURSIVE Alone(_, _, _, _)
Alone(opts, log, last, posted) ==
  LET nowPosted == Append(posted, messagesHostOf(opts))
      final == IF "error" \in DOMAIN last THEN log = <<>> ELSE Len(log) = 1
      after == AfterPost(opts, IF final THEN last ELSE Replayed(Head(log)))
  IN  IF final
        THEN [pc |-> after.pc, options |-> after.options, result |-> after.result,
              posts |-> nowPosted]
        ELSE Alone(after.options, Tail(log), last, nowPosted)
C13_Case(c) == pc[c] \in {"start", "done"} /\ nPosts[c] >= 1 /\ Recorded(c)
C13_NoSharedState ==
  \A c \in Calls :
    C13_Case(c) =>
      [pc |-> pc[c], options |-> options[c], result |-> result[c], posts |-> posts[c]]
        = Alone(args[c], received[c], res[c], <<>>)
C13_Witness ==
  /\ \A c \in Calls : C13_Case(c) /\ pc[c] = "done" /\ nPosts[c] = 2
  /\ result[1].kind = "token"
  /\ result[2].kind = "error"
  /\ posts[1] # posts[2]

\* C14: the expiration instant of a returned token, in milliseconds, is 1000
\* times the decimal seconds of the expires parameter of the header, and its
\* value, endpointId and raw are the registrationToken parameter, the
\* endpointId parameter and the header as received.
Param(header, key) == header[CHOOSE i \in 1..Len(header) : header[i][1] = key][2]
RECURSIVE PowerOfTen(_)
PowerOfTen(n) == IF n = 0 THEN 1 ELSE 10 * PowerOfTen(n - 1)
RECURSIVE DecimalSeconds(_)
DecimalSeconds(s) ==
  IF s = <<>> THEN 0
  ELSE Digit(Head(s)) * PowerOfTen(Len(s) - 1) + DecimalSeconds(Tail(s))
C14_TokenFields ==
  \A c \in Calls :
    result[c].kind = "token" =>
      LET header == res[c].headers.setRegistrationtoken IN
      /\ result[c].expirationDate = 1000 * DecimalSeconds(Param(header, "expires"))
      /\ result[c].value = Param(header, "registrationToken")
      /\ result[c].endpointId = Param(header, "endpointId")
      /\ result[c].raw = header
C14_Witness ==
  \E c \in Calls : result[c].kind = "token" /\ result[c].expirationDate = 205000

\* C15 (as claimed): a further attempt is made only after a response with an
\* accepted status whose location has a host, different from the host
\* queried, and with budget left; it targets that host. Every other outcome
\* of a POST is terminal.
C15_Redirecting(c, o) ==
  /\ IsResponse(o)
  /\ AcceptedStatus(o)
  /\ o.headers.location.host # Undefined
  /\ o.headers.location.host[1] # Queried(c)
  /\ retryOf(options[c]) > 0
C15_RetryOnlyOnMismatch ==
  [][\A c \in Calls :
       (pc[c] = "await" /\ pc'[c] # "await") =>
          IF pc'[c] = "start"
            THEN /\ C15_Redirecting(c, res'[c])
                 /\ messagesHostOf(options'[c]) = res'[c].headers.location.host[1]
            ELSE pc'[c] = "done" /\ ~C15_Redirecting(c, res'[c])]_vars

\* C16: the redirect decision does not look at which accepted status came.
\* A 201 or 301 whose location host differs from the host queried is a
\* redirect, or the failure "net" when the budget is 0, and gives no token
\* whatever its set-registrationtoken header; a 201 or 301 whose location
\* host is the host queried goes on to the token parameters.
C16_Case(c) == Handled(c) /\ AcceptedStatus(res[c])
C16_StatusBlindRedirect ==
  \A c \in Calls :
    C16_Case(c) =>
      IF LocationHost(res[c].headers.location) # Queried(c)
        THEN /\ result[c].kind # "token"
             /\ \/ pc[c] = "start"
                \/ pc[c] = "done" /\ result[c] = Failure("net") /\ retryOf(options[c]) = 0
        ELSE /\ pc[c] = "done"
             /\ IF CompleteTokenHeader(res[c].headers.setRegistrationtoken)
                  THEN result[c].kind = "token"
                  ELSE result[c] = Failure("protocol")
C16_Witness ==
  \E c \in Calls :
    /\ C16_Case(c)
    /\ res[c].statusCode = 201
    /\ res[c].headers.location.host # Undefined
    /\ LocationHost(res[c].headers.location) # Queried(c)
    /\ CompleteTokenHeader(res[c].headers.setRegistrationtoken)
    /\ pc[c] = "start"

\* C17: the attempts of a call are sequential. At most one POST is
\* outstanding, and a POST after the first is issued only once the response
\* to the previous one has been received and its location host found to
\* differ from the host queried.
Settlements(c) == Len(received[c]) + (IF "error" \in DOMAIN res[c] THEN 1 ELSE 0)
C17_OneOutstanding ==
  \A c \in Calls :
    Recorded(c) =>
      /\ nPosts[c] - Settlements(c) \in {0, 1}
      /\ nPosts[c] - Settlements(c) = 1 <=> pc[c] = "await"
C17_Sequential ==
  /\ []C17_OneOutstanding
  /\ [][\A c \in Calls :
          nPosts'[c] # nPosts[c] =>
            /\ nPosts'[c] = nPosts[c] + 1
            /\ pc[c] # "await"
            /\ nPosts[c] >= 1 =>
                 /\ IsResponse(res[c])
                 /\ AcceptedStatus(res[c])
                 /\ LocationHost(res[c].headers.location) # Queried(c)]_vars
C17_Witness ==
  \E c \in Calls : pc[c] = "await" /\ nPosts[c] = 3 /\ Len(received[c]) = 2

\* C18: the tests on a response come in the order status, location host,
\* host comparison, token parameters. A status that is not accepted fails
\* with UnexpectedHttpStatus even when the location host differs and budget
\* remains; a host mismatch is a redirect or the failure "net" even when the
\* set-registrationtoken header lacks parameters; "protocol"
\* (MissingTokenFields) is reported only for a response whose host matched.
C18_Precedence ==
  \A c \in Calls :
    Handled(c) =>
      /\ ~AcceptedStatus(res[c]) =>
           pc[c] = "done" /\ result[c] = Failure("UnexpectedHttpStatus")
      /\ (AcceptedStatus(res[c]) /\ LocationHost(res[c].headers.location) # Queried(c)) =>
           \/ pc[c] = "start" /\ result[c] = Pending
           \/ pc[c] = "done" /\ result[c] = Failure("net")
      /\ result[c] = Failure("protocol") =>
           /\ AcceptedStatus(res[c])
           /\ LocationHost(res[c].headers.location) = Queried(c)
C18_Witness ==
  \E c \in Calls :
    /\ Handled(c)
    /\ AcceptedStatus(res[c])
    /\ LocationHost(res[c].headers.location) # Queried(c)
    /\ ~CompleteTokenHeader(res[c].headers.setRegistrationtoken)
    /\ pc[c] = "start"
    /\ nPosts[c] = 2

\* C19: in every attempt the time of the LockAndKey header is the time the
\* lockAndKeyResponse of that header was computed from, and it is the clock
\* read for this attempt, before its POST; the Authentication header and the
\* body "{}" are the same in every attempt of a call.
C19_Issued(c) == nPosts[c] >= 1
C19_Proof(c) ==
  LET header == requestOptions[c].headers.LockAndKey IN
  /\ Param(header, "lockAndKeyResponse") =
       hmacSha256(Param(header, "time"), SKYPEWEB_LOCKANDKEY_APPID,
                  SKYPEWEB_LOCKANDKEY_SECRET)
  /\ requestOptions[c].body = "{}"
  /\ requestOptions[c].headers.Authentication =
       << <<"skypetoken", apiContext.skypeToken.value>> >>
C19_FreshTimeAndProof ==
  /\ [](\A c \in Calls : C19_Issued(c) => C19_Proof(c))
  /\ [][\A c \in Calls :
          (pc[c] = "start" /\ pc'[c] = "await") =>
            /\ DecimalSeconds(Param(requestOptions'[c].headers.LockAndKey, "time")) = now
            /\ C19_Issued(c) =>
                 /\ requestOptions'[c].headers.Authentication =
                      requestOptions[c].headers.Authentication
                 /\ requestOptions'[c].body = requestOptions[c].body]_vars
C19_Witness ==
  \E c \in Calls :
    /\ nPosts[c] = 2
    /\ pc[c] = "await"
    /\ Param(requestOptions[c].headers.LockAndKey, "time") = <<"1", "0", "0">>

====
